---- MODULE Spec2Model ----
(***************************************************************************)
(* Model of the geolocation attendance tracker (src/finalcode.py).         *)
(*                                                                         *)
(* The program is a Streamlit script: every interaction re-runs the script *)
(* from the top, so every handler is preceded by init_db() and             *)
(* migrate_columns().  The persistent state is the attendance table of     *)
(* the SQLite database.  The sessions' runs go on concurrently, each       *)
(* statement on a connection of its run and no lock held between two       *)
(* statements, so a run is a sequence of steps, one per statement.         *)
(***************************************************************************)
EXTENDS Naturals, Integers, Sequences, FiniteSets, TLC

VARIABLES
    table,      \* rows of the attendance table, in rowid order
    seq,        \* sqlite_sequence value of the AUTOINCREMENT key
    clock,      \* last reading of the server clock (datetime.now())
    openConns,  \* connections the last completed script run opened and did not close
    result,     \* what the last interaction did and showed to the user
    pend,       \* per session: the script run it is in the middle of, if any
    schema,     \* the attendance table's existence and columns, and the ALTERs executed so far
    admin       \* per session: st.session_state["admin_logged_in"]

vars == <<table, seq, clock, openConns, result, pend, schema, admin>>

----------------------------------------------------------------------------
(* Bounds of the model *)

MaxRows == 2
MaxClock == 1
MaxLegacyRows == 2
MaxAdminRows == 3
MaxSchemaRows == 1
MaxDrainRows == 3

----------------------------------------------------------------------------
(* Values *)

\* SQL NULL / Python None; a present value v is the one-element tuple <<v>>
Null == <<>>
Some(v) == <<v>>

\* Text typed into st.text_input("Enter your name"): a sequence of characters,
\* each character its Unicode code point.
\* Whitespace is what str.strip() removes, the characters c with c.isspace():
\* U+0009..U+000D, U+001C..U+0020, U+0085, U+00A0, U+1680, U+2000..U+200A,
\* U+2028, U+2029, U+202F, U+205F and U+3000.
Whitespace ==
    (9..13) \cup (28..32) \cup {133, 160, 5760} \cup (8192..8202)
        \cup {8232, 8233, 8239, 8287, 12288}

\* The names "", " " followed by a no-break space, "a" and " b"
Usernames == { <<>>, <<32, 160>>, <<97>>, <<32, 98>> }

Sessions == {1, 2}

Max(S) == CHOOSE m \in S : \A n \in S : n <= m

----------------------------------------------------------------------------
(* str.strip(): drop leading and trailing whitespace *)

RECURSIVE LStrip(_)
LStrip(s) ==
    IF s = <<>> THEN <<>>
    ELSE IF Head(s) \in Whitespace THEN LStrip(Tail(s)) ELSE s

RECURSIVE RStrip(_)
RStrip(s) ==
    IF s = <<>> THEN <<>>
    ELSE IF s[Len(s)] \in Whitespace THEN RStrip(SubSeq(s, 1, Len(s) - 1)) ELSE s

Strip(s) == RStrip(LStrip(s))

\* `not username.strip()`
IsBlankNoStrip(u) == u = <<>>
IsBlank(u) == Strip(u) = <<>>

\* The usernames the handlers accept
Clients == { u \in Usernames : ~IsBlank(u) }

----------------------------------------------------------------------------
(* datetime.now().strftime("%Y-%m-%d %H:%M:%S"): a reading of the clock is *)
(* stored as its date portion (characters 1..10) and its time of day.      *)

DayLen == 2
Strftime(t) == <<t \div DayLen, t % DayLen>>

----------------------------------------------------------------------------
(* get_ip_location *)

\* What geocoder.ip("me") can give: an exception, or an object with latlng
\* and the city/state/country attributes, each possibly None or "".
GeoExc == [exc |-> TRUE, latlng |-> Null, city |-> Null, state |-> Null, country |-> Null]
GeoFull == [exc |-> FALSE, latlng |-> <<12, 77>>, city |-> Some("Bengaluru"), state |-> Some("KA"), country |-> Some("India")]
GeoNone == [exc |-> FALSE, latlng |-> Null, city |-> Null, state |-> Null, country |-> Null]
GeoBare == [exc |-> FALSE, latlng |-> <<12, 77>>, city |-> Null, state |-> Some(""), country |-> Null]
GeoNoFix == [exc |-> FALSE, latlng |-> Null, city |-> Null, state |-> Null, country |-> Some("India")]
GeoResults == {GeoExc, GeoNone, GeoBare, GeoNoFix, GeoFull}

\* What a run of a handler is explored with: the text of its remark area
\* and what the lookup gives during that run
Forms == { [remark |-> "", geo |-> GeoExc], [remark |-> "done", geo |-> GeoFull] }

\* The form of a run during which the lookup succeeds
ClientForms == { f \in Forms : f.geo = GeoFull }

\* filter(None, [...]): drop None and empty strings
FilterNone(fields) == SelectSeq(fields, LAMBDA f : f /= Null /\ f /= Some(""))

\* ", ".join(parts)
RECURSIVE JoinComma(_)
JoinComma(parts) ==
    IF parts = <<>> THEN ""
    ELSE IF Len(parts) = 1 THEN parts[1][1]
    ELSE parts[1][1] \o ", " \o JoinComma(Tail(parts))

Address(g) ==
    LET joined == JoinComma(FilterNone(<<g.city, g.state, g.country>>))
    IN  IF joined = "" THEN "Unknown" ELSE joined

\* returns [lat, lon, address]
get_ip_location(g) ==
    IF g.exc
    THEN [lat |-> Null, lon |-> Null, address |-> "Unknown"]
    ELSE [lat |-> IF g.latlng /= Null THEN Some(g.latlng[1]) ELSE Null,
          lon |-> IF g.latlng /= Null THEN Some(g.latlng[2]) ELSE Null,
          address |-> Address(g)]

----------------------------------------------------------------------------
(* The attendance table *)

Ids(t) == { t[i].id : i \in 1..Len(t) }

IsOpen(r) == r.checkout_time = Null

\* AUTOINCREMENT: one more than the largest rowid ever used
NextId(t, s) == Max(Ids(t) \cup {s}) + 1

\* migrate_columns, data step: UPDATE ... SET latitude = checkin_latitude,
\* longitude = checkin_longitude WHERE (latitude IS NULL OR longitude IS NULL)
\* AND checkin_latitude IS NOT NULL AND checkin_longitude IS NOT NULL
BackfillRowSwapped(r) ==
    IF (r.latitude = Null \/ r.longitude = Null)
       /\ r.checkin_latitude /= Null /\ r.checkin_longitude /= Null
    THEN [r EXCEPT !.latitude = r.checkin_latitude, !.longitude = r.latitude]
    ELSE r

BackfillRow(r) ==
    IF (r.latitude = Null \/ r.longitude = Null)
       /\ r.checkin_latitude /= Null /\ r.checkin_longitude /= Null
    THEN [r EXCEPT !.latitude = r.checkin_latitude, !.longitude = r.checkin_longitude]
    ELSE r

Backfill(t) == [i \in 1..Len(t) |-> BackfillRow(t[i])]

\* INSERT INTO attendance (...) VALUES (username, lat, lon, lat, lon, address,
\* checkin_time, checkin_remark, None, None, None, None)
NewRowNoMirror(id, u, r, loc, now) ==
    [id |-> id, username |-> u,
     latitude |-> Null, longitude |-> Null, address |-> loc.address,
     checkin_time |-> Some(Strftime(now)), checkin_remark |-> Some(r),
     checkin_latitude |-> loc.lat, checkin_longitude |-> loc.lon,
     checkout_time |-> Null, checkout_remark |-> Null,
     checkout_latitude |-> Null, checkout_longitude |-> Null]

NewRowShifted(id, u, r, loc, now) ==
    [id |-> id, username |-> u,
     latitude |-> loc.lat, longitude |-> loc.lon, address |-> loc.address,
     checkin_time |-> Some(Strftime(now)), checkin_remark |-> Some(r),
     checkin_latitude |-> loc.lat, checkin_longitude |-> loc.lon,
     checkout_time |-> Some(Strftime(now)), checkout_remark |-> Null,
     checkout_latitude |-> Null, checkout_longitude |-> Null]

NewRow(id, u, r, loc, now) ==
    [id |-> id, username |-> u,
     latitude |-> loc.lat, longitude |-> loc.lon, address |-> loc.address,
     checkin_time |-> Some(Strftime(now)), checkin_remark |-> Some(r),
     checkin_latitude |-> loc.lat, checkin_longitude |-> loc.lon,
     checkout_time |-> Null, checkout_remark |-> Null,
     checkout_latitude |-> Null, checkout_longitude |-> Null]

\* SELECT id FROM attendance WHERE username=? AND checkout_time IS NULL
\* ORDER BY id DESC LIMIT 1; 0 stands for "no row"
OpenIdsAnyUser(t, u) == { t[i].id : i \in { j \in 1..Len(t) : IsOpen(t[j]) } }
OpenIds(t, u) == { t[i].id : i \in { j \in 1..Len(t) : t[j].username = u /\ IsOpen(t[j]) } }

SelectOpenAny(t, u) ==
    LET mine == { t[i].id : i \in { j \in 1..Len(t) : t[j].username = u } }
    IN  IF mine = {} THEN 0 ELSE Max(mine)

SelectOpenLowest(t, u) ==
    IF OpenIds(t, u) = {} THEN 0
    ELSE CHOOSE m \in OpenIds(t, u) : \A n \in OpenIds(t, u) : m <= n

SelectOpen(t, u) == IF OpenIds(t, u) = {} THEN 0 ELSE Max(OpenIds(t, u))

\* UPDATE attendance SET checkout_time=?, checkout_remark=?,
\* checkout_latitude=?, checkout_longitude=? WHERE id=?
UpdateCheckoutNoRemark(t, id, r, loc, now) ==
    [i \in 1..Len(t) |->
        IF t[i].id = id
        THEN [t[i] EXCEPT !.checkout_time = Some(Strftime(now)),
                          !.checkout_latitude = loc.lat,
                          !.checkout_longitude = loc.lon]
        ELSE t[i]]

UpdateCheckoutNoTime(t, id, r, loc, now) ==
    [i \in 1..Len(t) |->
        IF t[i].id = id
        THEN [t[i] EXCEPT !.checkout_remark = Some(r),
                          !.checkout_latitude = loc.lat,
                          !.checkout_longitude = loc.lon]
        ELSE t[i]]

UpdateCheckoutDateOnly(t, id, r, loc, now) ==
    [i \in 1..Len(t) |->
        IF t[i].id = id
        THEN [t[i] EXCEPT !.checkout_time = Some(<<Strftime(now)[1], 0>>),
                          !.checkout_remark = Some(r),
                          !.checkout_latitude = loc.lat,
                          !.checkout_longitude = loc.lon]
        ELSE t[i]]

UpdateCheckout(t, id, r, loc, now) ==
    [i \in 1..Len(t) |->
        IF t[i].id = id
        THEN [t[i] EXCEPT !.checkout_time = Some(Strftime(now)),
                          !.checkout_remark = Some(r),
                          !.checkout_latitude = loc.lat,
                          !.checkout_longitude = loc.lon]
        ELSE t[i]]

----------------------------------------------------------------------------
(* Initial state: a fresh database, no session in the middle of anything *)

\* rows: the ids of the dataframe the run displays; csv: the download button
NoResult == [op |-> "none", outcome |-> "none", rows |-> <<>>, csv |-> FALSE]

\* A session with no script run under way.  In a run: pc is where the run
\* stands, todo the columns its ALTER loop has still to add, user and show
\* the name field and the history checkbox, record_id the row its SELECT
\* found, now its reading of the clock, shown the message of its handler,
\* options the entries of the admin page's user filter, conns the
\* connections it has open, rerun whether st.experimental_rerun() started it.
Idle == [pc |-> "idle", user |-> <<>>, show |-> FALSE, record_id |-> 0, now |-> 0,
         todo |-> <<>>, shown |-> NoResult, options |-> {}, conns |-> 0,
         rerun |-> FALSE]

\* CREATE TABLE IF NOT EXISTS attendance (...): the columns of a new table
BaseCols == {"id", "username", "address", "checkin_time", "checkout_time"}

\* migrate_columns: new_cols
NewCols == {"latitude", "longitude", "checkin_remark", "checkout_remark",
            "checkin_latitude", "checkin_longitude",
            "checkout_latitude", "checkout_longitude"}

\* new_cols in the order the loop goes through it
NewColsOrder == <<"latitude", "longitude", "checkin_remark", "checkout_remark",
                  "checkin_latitude", "checkin_longitude",
                  "checkout_latitude", "checkout_longitude">>

AllCols == BaseCols \cup NewCols

NoTable == [exists |-> FALSE, cols |-> {}, alters |-> 0]

\* init_db
InitDb(sc) ==
    IF sc.exists THEN sc ELSE [exists |-> TRUE, cols |-> AllCols, alters |-> 0]

\* migrate_columns: for col in new_cols: if col not in cols: ALTER TABLE ADD COLUMN
MissingColsNoCheck(cs) == NewCols
MissingCols(cs) == { col \in NewCols : col \notin cs }

\* The columns the loop will add, in its order, for the column list cs that
\* PRAGMA table_info gave
Todo(cs) == SelectSeq(NewColsOrder, LAMBDA col : col \in MissingCols(cs))

\* One ALTER TABLE attendance ADD COLUMN col
AddColumn(sc, col) == [sc EXCEPT !.cols = @ \cup {col}, !.alters = @ + 1]

\* st.session_state["admin_logged_in"] of a new session
NoAdmin == [s \in Sessions |-> FALSE]

Init ==
    /\ table = <<>>
    /\ seq = 0
    /\ clock = 0
    /\ openConns = 0
    /\ result = NoResult
    /\ pend = [s \in Sessions |-> Idle]
    /\ schema = NoTable
    /\ admin = NoAdmin

----------------------------------------------------------------------------
(* Connections: get_conn() opens one, conn.close() closes one.  A script
   run starts with no connection of its own. *)

GetConn(n) == n + 1
Close(n) == n - 1

\* init_db() opens a connection and closes it
InitDbConns(n) == Close(GetConn(n))

\* What the run shows: st.success / st.error / st.warning
Outcome(op, outcome) == [op |-> op, outcome |-> outcome, rows |-> <<>>, csv |-> FALSE]

\* ORDER BY id DESC
RECURSIVE OrderDesc(_)
OrderDesc(S) ==
    IF S = {} THEN <<>> ELSE <<Max(S)>> \o OrderDesc(S \ {Max(S)})

\* SELECT * FROM attendance WHERE username=? ORDER BY id DESC
UserRows(t, u) == OrderDesc({ t[i].id : i \in { j \in 1..Len(t) : t[j].username = u } })

----------------------------------------------------------------------------
(* A script run.  Every interaction runs the script from the top: init_db(),
   migrate_columns(), then the branch of the pressed button, then the
   history checkbox.  Each statement is executed on its own, on a connection
   of the run, with no lock held from one to the next, so the statements of
   another session's run can come between any two of them: there is one
   action per statement.  What the user entered (the name, the button, the
   checkbox, the remark) is read by the script where it gets there, and is
   an input of the action of that place. *)

\* The run of session s ends: what it has shown, the connections it leaves
\* open
EndRun(s, msg, n) ==
    /\ result' = msg
    /\ openConns' = n
    /\ pend' = [pend EXCEPT ![s] = Idle]

\* if st.checkbox("Show My Attendance History"): after the handler, in user
\* mode.  With the box ticked and a name given the run goes on to the
\* history query; otherwise it ends.
ThenHistory(s, msg, n, u, show) ==
    IF show /\ ~IsBlank(u)
    THEN /\ pend' = [pend EXCEPT ![s] = [Idle EXCEPT !.pc = "history", !.user = u,
                                                     !.show = TRUE, !.shown = msg,
                                                     !.conns = n]]
         /\ UNCHANGED <<result, openConns>>
    ELSE EndRun(s, msg, n)

\* The start of a run: init_db(), that is get_conn(), CREATE TABLE IF NOT
\* EXISTS, conn.commit(), conn.close()
StartupInitDb(s) ==
    /\ pend[s].pc \in {"idle", "rerun"}
    /\ schema' = InitDb(schema)
    /\ pend' = [pend EXCEPT ![s] = [Idle EXCEPT !.pc = "inspecting",
                                                !.conns = InitDbConns(0),
                                                !.rerun = (pend[s].pc = "rerun")]]
    /\ UNCHANGED <<table, seq, clock, openConns, result, admin>>

\* migrate_columns() up to its reading: get_conn() and PRAGMA table_info
StartupInspect(s) ==
    /\ pend[s].pc = "inspecting"
    /\ pend' = [pend EXCEPT ![s].pc = "migrating", ![s].todo = Todo(schema.cols),
                             ![s].conns = GetConn(@)]
    /\ UNCHANGED <<table, seq, clock, openConns, result, schema, admin>>

\* The next ALTER TABLE of the loop; on a column another run has added in
\* the meantime it raises sqlite3.OperationalError (duplicate column name)
\* and the run ends, migrate_columns' connection not closed
StartupAlter(s) ==
    /\ pend[s].pc = "migrating"
    /\ pend[s].todo /= <<>>
    /\ IF Head(pend[s].todo) \in schema.cols
       THEN /\ EndRun(s, Outcome("startup", "OperationalError"), pend[s].conns)
            /\ UNCHANGED schema
       ELSE /\ schema' = AddColumn(schema, Head(pend[s].todo))
            /\ pend' = [pend EXCEPT ![s].todo = Tail(@)]
            /\ UNCHANGED <<result, openConns>>
    /\ UNCHANGED <<table, seq, clock, admin>>

\* The end of migrate_columns: conn.commit(), the backfill UPDATE,
\* conn.commit(), conn.close().  The script then goes, with no statement in
\* between, to the branch of the mode and the button of this run, so each
\* of the actions below that begin a branch includes it.
MigrateEnd(s) ==
    /\ pend[s].pc = "migrating"
    /\ pend[s].todo = <<>>
    /\ table' = Backfill(table)

\* User mode, no button pressed, the history checkbox not ticked (a page
\* load): the run ends after the startup
StartupBackfill(s) ==
    /\ MigrateEnd(s)
    /\ ~pend[s].rerun
    /\ EndRun(s, Outcome("startup", "ok"), Close(pend[s].conns))
    /\ UNCHANGED <<seq, clock, schema, admin>>

\* User mode, no button pressed, the history checkbox ticked
HistoryStart(s, u) ==
    /\ MigrateEnd(s)
    /\ ~pend[s].rerun
    /\ ThenHistory(s, Outcome("history", IF IsBlank(u) THEN "ValidationError" ELSE "ok"),
                   Close(pend[s].conns), u, TRUE)
    /\ UNCHANGED <<seq, clock, schema, admin>>

\* The history query: get_conn(), SELECT * FROM attendance WHERE username=?
\* ORDER BY id DESC, conn.close(), st.dataframe(df).  It is the last
\* statement of a run in user mode.
History(s) ==
    /\ pend[s].pc = "history"
    /\ EndRun(s, [pend[s].shown EXCEPT !.rows = UserRows(table, pend[s].user)],
              Close(GetConn(pend[s].conns)))
    /\ UNCHANGED <<table, seq, clock, schema, admin>>

----------------------------------------------------------------------------
(* if st.button("Check-In") *)

\* Runs that are on their way to an INSERT
PendingInserts == Cardinality({ s \in Sessions : pend[s].pc \in {"checkin", "insert"} })

\* The blank-name check; with a name the run goes on to get_ip_location()
CheckInStart(s, u, show) ==
    /\ MigrateEnd(s)
    /\ ~pend[s].rerun
    /\ IF IsBlank(u)
       THEN ThenHistory(s, Outcome("checkin", "ValidationError"), Close(pend[s].conns),
                        u, show)
       ELSE /\ Len(table) + PendingInserts < MaxRows
            /\ pend' = [pend EXCEPT ![s] = [Idle EXCEPT !.pc = "checkin", !.user = u,
                                                        !.show = show,
                                                        !.conns = Close(pend[s].conns)]]
            /\ UNCHANGED <<result, openConns>>
    /\ UNCHANGED <<seq, clock, schema, admin>>

\* datetime.now(), after the wait for the location lookup
CheckInRead(s, now) ==
    /\ pend[s].pc = "checkin"
    /\ clock' = now
    /\ pend' = [pend EXCEPT ![s].pc = "insert", ![s].now = now]
    /\ UNCHANGED <<table, seq, openConns, result, schema, admin>>

\* get_conn(), the INSERT, conn.commit(), conn.close(), st.success; r is the
\* text of the remark area, g what the location lookup gave
CheckInInsert(s, r, g) ==
    LET loc == get_ip_location(g)
        id == NextId(table, seq)
        u == pend[s].user
    IN  /\ pend[s].pc = "insert"
        /\ table' = Append(table, NewRow(id, u, r, loc, pend[s].now))
        /\ seq' = id
        /\ ThenHistory(s, Outcome("checkin", "ok"), Close(GetConn(pend[s].conns)),
                       u, pend[s].show)
        /\ UNCHANGED <<clock, schema, admin>>

----------------------------------------------------------------------------
(* if st.button("Check-Out"): the handler reads (SELECT), waits for the
   location lookup holding no lock, reads the clock, then writes
   (UPDATE ... WHERE id=?). *)

\* The blank-name check; with a name the run goes on to its SELECT
CheckOutStart(s, u, show) ==
    /\ MigrateEnd(s)
    /\ ~pend[s].rerun
    /\ IF IsBlank(u)
       THEN ThenHistory(s, Outcome("checkout", "ValidationError"), Close(pend[s].conns),
                        u, show)
       ELSE /\ pend' = [pend EXCEPT ![s] = [Idle EXCEPT !.pc = "checkout", !.user = u,
                                                        !.show = show,
                                                        !.conns = Close(pend[s].conns)]]
            /\ UNCHANGED <<result, openConns>>
    /\ UNCHANGED <<seq, clock, schema, admin>>

\* get_conn() and the SELECT.  With a row the run goes on, holding its
\* connection; with none, the warning branch returns without conn.close()
CheckOutLookup(s) ==
    LET record_id == SelectOpen(table, pend[s].user)
    IN  /\ pend[s].pc = "checkout"
        /\ IF record_id /= 0
           THEN /\ pend' = [pend EXCEPT ![s].pc = "found", ![s].record_id = record_id,
                                        ![s].conns = GetConn(@)]
                /\ UNCHANGED <<result, openConns>>
           ELSE ThenHistory(s, Outcome("checkout", "NotFound"), GetConn(pend[s].conns),
                            pend[s].user, pend[s].show)
        /\ UNCHANGED <<table, seq, clock, schema, admin>>

\* datetime.now(), after the wait for the location lookup
CheckOutRead(s, now) ==
    /\ pend[s].pc = "found"
    /\ clock' = now
    /\ pend' = [pend EXCEPT ![s].pc = "update", ![s].now = now]
    /\ UNCHANGED <<table, seq, openConns, result, schema, admin>>

\* The UPDATE, conn.commit(), conn.close(), st.success; r is the text of the
\* remark area, g what the location lookup gave
CheckOutUpdate(s, r, g) ==
    LET loc == get_ip_location(g)
    IN  /\ pend[s].pc = "update"
        /\ table' = UpdateCheckout(table, pend[s].record_id, r, loc, pend[s].now)
        /\ ThenHistory(s, Outcome("checkout", "ok"), Close(pend[s].conns),
                       pend[s].user, pend[s].show)
        /\ UNCHANGED <<seq, clock, schema, admin>>

----------------------------------------------------------------------------
(* Admin mode *)

ADMIN_USERNAME == "admin"
ADMIN_PASSWORD == "12345"

\* if admin_user == ADMIN_USERNAME and admin_pass == ADMIN_PASSWORD
LoginOkEither(user, pass) == user = ADMIN_USERNAME \/ pass = ADMIN_PASSWORD
LoginOk(user, pass) == user = ADMIN_USERNAME /\ pass = ADMIN_PASSWORD

\* The "All" entry of the user filter, a text like the usernames
All == <<65, 108, 108>>

\* date.strftime("%Y-%m-%d") and the first 10 characters of a stored
\* timestamp: the day number as zero-padded digits
DateStrNoPad(d) == IF d < 10 THEN <<d>> ELSE <<d \div 10, d % 10>>
DateStr(d) == <<d \div 10, d % 10>>

\* substr(checkin_time,1,10)
Substr10(ts) == DateStr(ts[1][1])

\* Comparison of two texts, character by character (SQLite BINARY collation)
RECURSIVE StrLeq(_, _)
StrLeq(x, y) ==
    IF x = <<>> THEN TRUE
    ELSE IF y = <<>> THEN FALSE
    ELSE IF Head(x) = Head(y) THEN StrLeq(Tail(x), Tail(y))
    ELSE Head(x) < Head(y)

\* x BETWEEN lo AND hi
Between(x, lo, hi) == StrLeq(lo, x) /\ StrLeq(x, hi)

\* SELECT DISTINCT username FROM attendance, keeping the non-empty ones
FilterOptions(t) == {All} \cup { t[i].username : i \in { j \in 1..Len(t) : t[j].username /= <<>> } }

\* SELECT * FROM attendance WHERE 1=1 [AND username=?]
\* AND substr(checkin_time,1,10) BETWEEN ? AND ? ORDER BY id DESC
Search(t, selected_user, date_from, date_to) ==
    OrderDesc({ t[i].id : i \in { j \in 1..Len(t) :
        /\ (selected_user /= All => t[j].username = selected_user)
        /\ t[j].checkin_time /= Null
        /\ Between(Substr10(t[j].checkin_time), DateStr(date_from), DateStr(date_to)) } })

\* Admin mode, no button pressed: the login form when the session is not
\* logged in, and then the run ends; the admin page otherwise
AdminStart(s) ==
    /\ MigrateEnd(s)
    /\ IF admin[s]
       THEN /\ pend' = [pend EXCEPT ![s] = [Idle EXCEPT !.pc = "admin",
                                                        !.conns = Close(pend[s].conns),
                                                        !.rerun = pend[s].rerun]]
            /\ UNCHANGED <<result, openConns>>
       ELSE EndRun(s, Outcome("admin", "LoginForm"), Close(pend[s].conns))
    /\ UNCHANGED <<seq, clock, schema, admin>>

\* if st.button("Login as Admin"): on success the flag is set and
\* st.experimental_rerun() runs the script again
AdminLogin(s, admin_user, admin_pass) ==
    /\ MigrateEnd(s)
    /\ ~pend[s].rerun
    /\ ~admin[s]
    /\ IF LoginOk(admin_user, admin_pass)
       THEN /\ admin' = [admin EXCEPT ![s] = TRUE]
            /\ result' = Outcome("login", "ok")
            /\ openConns' = Close(pend[s].conns)
            /\ pend' = [pend EXCEPT ![s] = [Idle EXCEPT !.pc = "rerun"]]
       ELSE /\ EndRun(s, Outcome("login", "Invalid"), Close(pend[s].conns))
            /\ UNCHANGED admin
    /\ UNCHANGED <<seq, clock, schema>>

\* if st.button("Logout"): the flag is cleared and the script is run again
AdminLogout(s) ==
    /\ MigrateEnd(s)
    /\ ~pend[s].rerun
    /\ admin[s]
    /\ admin' = [admin EXCEPT ![s] = FALSE]
    /\ result' = Outcome("logout", "ok")
    /\ openConns' = Close(pend[s].conns)
    /\ pend' = [pend EXCEPT ![s] = [Idle EXCEPT !.pc = "rerun"]]
    /\ UNCHANGED <<seq, clock, schema>>

\* The admin page, first statement: get_conn() and SELECT DISTINCT username
\* for the entries of the user filter
AdminOptions(s) ==
    /\ pend[s].pc = "admin"
    /\ pend' = [pend EXCEPT ![s].pc = "search", ![s].options = FilterOptions(table),
                             ![s].conns = GetConn(@)]
    /\ UNCHANGED <<table, seq, clock, openConns, result, schema, admin>>

\* The admin page, second statement: the search with the filter and the
\* dates as they are set, conn.close(), the dataframe and the CSV download.
\* In the run after a login the filter is new and stands at "All".
AdminView(s, selected_user, date_from, date_to) ==
    LET rows == Search(table, selected_user, date_from, date_to)
    IN  /\ pend[s].pc = "search"
        /\ selected_user \in pend[s].options
        /\ pend[s].rerun => selected_user = All
        /\ EndRun(s, [op |-> "admin", outcome |-> "ok", rows |-> rows,
                      csv |-> rows /= <<>>],
                  Close(pend[s].conns))
        /\ UNCHANGED <<table, seq, clock, schema, admin>>

----------------------------------------------------------------------------
(* Specifications *)

\* The server clock read by a handler: never earlier than the last reading
Nows == { t \in {clock, clock + 1} : t <= MaxClock }

\* No session is in the middle of a script run
AllIdle == \A s \in Sessions : pend[s].pc = "idle"

\* No other session is in the middle of a script run
Alone(s) == \A t \in Sessions \ {s} : pend[t].pc = "idle"

\* The startup of a run
DoStartupInitDb == \E s \in Sessions : StartupInitDb(s)
DoStartupAlone == \E s \in Sessions : Alone(s) /\ StartupInitDb(s)
DoStartupInspect == \E s \in Sessions : StartupInspect(s)
DoStartupAlter == \E s \in Sessions : StartupAlter(s)
DoStartupBackfill == \E s \in Sessions : StartupBackfill(s)

\* Runs with the history checkbox ticked or not
DoHistoryStart == \E s \in Sessions, u \in Usernames : HistoryStart(s, u)
DoHistory == \E s \in Sessions : History(s)
DoCheckInStart ==
    \E s \in Sessions, u \in Usernames, show \in BOOLEAN : CheckInStart(s, u, show)
DoCheckOutStart ==
    \E s \in Sessions, u \in Usernames, show \in BOOLEAN : CheckOutStart(s, u, show)

\* Runs with the history checkbox not ticked
DoStoreCheckInStart == \E s \in Sessions, u \in Usernames : CheckInStart(s, u, FALSE)
DoStoreCheckOutStart == \E s \in Sessions, u \in Usernames : CheckOutStart(s, u, FALSE)

\* The same by named users
DoClientCheckInStart == \E s \in Sessions, u \in Clients : CheckInStart(s, u, FALSE)
DoClientCheckOutStart == \E s \in Sessions, u \in Clients : CheckOutStart(s, u, FALSE)

\* The steps of the handlers
DoCheckInRead == \E s \in Sessions, now \in Nows : CheckInRead(s, now)
DoCheckInInsert == \E s \in Sessions, f \in Forms : CheckInInsert(s, f.remark, f.geo)
DoCheckOutLookup == \E s \in Sessions : CheckOutLookup(s)
DoCheckOutRead == \E s \in Sessions, now \in Nows : CheckOutRead(s, now)
DoCheckOutUpdate == \E s \in Sessions, f \in Forms : CheckOutUpdate(s, f.remark, f.geo)

\* The same with the location available
DoLocatedCheckInInsert ==
    \E s \in Sessions, f \in ClientForms : CheckInInsert(s, f.remark, f.geo)
DoLocatedCheckOutUpdate ==
    \E s \in Sessions, f \in ClientForms : CheckOutUpdate(s, f.remark, f.geo)

\* The same within one reading of the clock
DoTimelessCheckInRead == \E s \in Sessions : CheckInRead(s, clock)
DoTimelessCheckOutRead == \E s \in Sessions : CheckOutRead(s, clock)

\* The attendance store's operations, one script run at a time; check-ins
\* are made with the location available
Next ==
    \/ DoStartupAlone
    \/ DoStartupInspect
    \/ DoStoreCheckInStart
    \/ DoCheckInRead
    \/ DoLocatedCheckInInsert
    \/ DoStoreCheckOutStart
    \/ DoCheckOutLookup
    \/ DoCheckOutRead
    \/ DoCheckOutUpdate

Spec == Init /\ [][Next]_vars

\* Every interaction of the user mode, one script run at a time and within
\* one reading of the clock, the check-outs made with the location
\* available.  From a fresh database the table is created complete, so no
\* run has an ALTER to do.
NextApp ==
    \/ DoStartupAlone
    \/ DoStartupInspect
    \/ DoStartupBackfill
    \/ DoHistoryStart
    \/ DoCheckInStart
    \/ DoTimelessCheckInRead
    \/ DoCheckInInsert
    \/ DoCheckOutStart
    \/ DoCheckOutLookup
    \/ DoTimelessCheckOutRead
    \/ DoLocatedCheckOutUpdate
    \/ DoHistory

SpecApp == Init /\ [][NextApp]_vars

\* Check-ins with every input, among check-outs of the named users, one
\* script run at a time
NextCheckIn ==
    \/ DoStartupAlone
    \/ DoStartupInspect
    \/ DoCheckInStart
    \/ DoCheckInRead
    \/ DoCheckInInsert
    \/ DoClientCheckOutStart
    \/ DoCheckOutLookup
    \/ DoCheckOutRead
    \/ DoLocatedCheckOutUpdate
    \/ DoHistory

SpecCheckIn == Init /\ [][NextCheckIn]_vars

\* Startup against a database left by an earlier version of the program:
\* every combination of null and non-null coordinates in every row
LegacyRow(id, c) ==
    [id |-> id, username |-> <<97>>,
     latitude |-> c[1], longitude |-> c[2], address |-> "Unknown",
     checkin_time |-> Some(Strftime(0)), checkin_remark |-> Some(""),
     checkin_latitude |-> c[3], checkin_longitude |-> c[4],
     checkout_time |-> Null, checkout_remark |-> Null,
     checkout_latitude |-> Null, checkout_longitude |-> Null]

LegacyCoords ==
    { <<a, b, c, d>> : a \in {Null, Some(1)}, b \in {Null, Some(2)},
                       c \in {Null, Some(3)}, d \in {Null, Some(4)} }

LegacyTables ==
    UNION { { [i \in 1..n |-> LegacyRow(i, f[i])] : f \in [1..n -> LegacyCoords] } :
            n \in 0..MaxLegacyRows }

InitBackfill ==
    /\ table \in LegacyTables
    /\ seq = Len(table)
    /\ clock = 0
    /\ openConns = 0
    /\ result = NoResult
    /\ pend = [s \in Sessions |-> Idle]
    /\ schema = [exists |-> TRUE, cols |-> AllCols, alters |-> 0]
    /\ admin = NoAdmin

\* Page loads of the sessions, interleaving freely; the table has every
\* column, so no run has an ALTER to do
NextBackfill ==
    \/ DoStartupInitDb
    \/ DoStartupInspect
    \/ DoStartupBackfill

SpecBackfill == InitBackfill /\ [][NextBackfill]_vars

----------------------------------------------------------------------------
(* Startup against a table of any earlier column set *)

\* A row as it reads in a table that has only the columns cs
MaskRow(r, cs) == [f \in DOMAIN r |-> IF f \in cs THEN r[f] ELSE Null]

SchemaTables(cs) ==
    UNION { { [i \in 1..n |-> MaskRow(LegacyRow(i, f[i]), cs)] :
              f \in [1..n -> LegacyCoords] } : n \in 0..MaxSchemaRows }

InitSchema ==
    /\ \/ schema = NoTable /\ table = <<>>
       \/ \E S \in SUBSET NewCols :
             /\ schema = [exists |-> TRUE, cols |-> BaseCols \cup S, alters |-> 0]
             /\ table \in SchemaTables(schema.cols)
    /\ seq = Len(table)
    /\ clock = 0
    /\ openConns = 0
    /\ result = NoResult
    /\ pend = [s \in Sessions |-> Idle]
    /\ admin = NoAdmin

\* Page loads of the sessions, interleaving freely
NextSchema ==
    \/ DoStartupInitDb
    \/ DoStartupInspect
    \/ DoStartupAlter
    \/ DoStartupBackfill

SpecSchema == InitSchema /\ [][NextSchema]_vars

----------------------------------------------------------------------------
(* Check-ins under every outcome of the location lookup *)

DoGeoCheckInInsert ==
    \E s \in Sessions, g \in GeoResults : CheckInInsert(s, "", g)

NextGeo ==
    \/ DoStartupAlone
    \/ DoStartupInspect
    \/ DoClientCheckInStart
    \/ DoCheckInRead
    \/ DoGeoCheckInInsert

SpecGeo == Init /\ [][NextGeo]_vars

----------------------------------------------------------------------------
(* Users who keep checking out and never check in again *)

\* A table of open records, as check-ins of the named users leave it
DrainRow(id, u) == NewRow(id, u, "", get_ip_location(GeoFull), 0)

DrainTables ==
    UNION { { [i \in 1..n |-> DrainRow(i, f[i])] : f \in [1..n -> Clients] } :
            n \in 0..MaxDrainRows }

InitDrain ==
    /\ table \in DrainTables
    /\ seq = Len(table)
    /\ clock = 0
    /\ openConns = 0
    /\ result = NoResult
    /\ pend = [s \in Sessions |-> Idle]
    /\ schema = [exists |-> TRUE, cols |-> AllCols, alters |-> 0]
    /\ admin = NoAdmin

\* Check-Out pressed with the name u
DrainStart(u) == \E s \in Sessions : CheckOutStart(s, u, FALSE)

\* Check-outs one after the other: a run starts when no run is under way
NextDrain ==
    \/ DoStartupAlone
    \/ DoStartupInspect
    \/ DoStoreCheckOutStart
    \/ DoCheckOutLookup
    \/ DoCheckOutRead
    \/ DoLocatedCheckOutUpdate

\* Runs keep being started, each named user presses Check-Out again and
\* again, and a run that is under way goes on to its end
SpecDrain ==
    /\ InitDrain
    /\ [][NextDrain]_vars
    /\ WF_vars(DoStartupAlone)
    /\ WF_vars(DoStartupInspect)
    /\ \A u \in Clients : SF_vars(DrainStart(u))
    /\ WF_vars(DoCheckOutLookup)
    /\ WF_vars(DoCheckOutRead)
    /\ WF_vars(DoLocatedCheckOutUpdate)

----------------------------------------------------------------------------
(* The admin mode, one script run at a time *)

\* What the admin mode is explored with
AdminUsers == {"admin", "Admin", ""}
AdminPasswords == {"12345", "1234"}
SearchDates == {8, 9, 10}
RowDates == {9, 10}

\* A table as check-ins on the days of RowDates leave it
AdminRow(id, u, d) ==
    NewRow(id, u, "", get_ip_location(GeoExc), d * DayLen)

AdminTables ==
    UNION { { [i \in 1..n |-> AdminRow(i, f[i][1], f[i][2])] :
              f \in [1..n -> Clients \X RowDates] } : n \in 0..MaxAdminRows }

InitAdmin ==
    /\ table \in AdminTables
    /\ seq = Len(table)
    /\ clock = 0
    /\ openConns = 0
    /\ result = NoResult
    /\ pend = [s \in Sessions |-> Idle]
    /\ schema = [exists |-> TRUE, cols |-> AllCols, alters |-> 0]
    /\ admin = NoAdmin

DoAdminStart == \E s \in Sessions : AdminStart(s)
DoAdminOptions == \E s \in Sessions : AdminOptions(s)
DoAdminView ==
    \E s \in Sessions, sel \in Clients \cup {All}, from \in SearchDates, to \in SearchDates :
        AdminView(s, sel, from, to)
DoAdminLogin ==
    \E s \in Sessions, user \in AdminUsers, pass \in AdminPasswords : AdminLogin(s, user, pass)
DoAdminLogout == \E s \in Sessions : AdminLogout(s)

NextAdmin ==
    \/ DoStartupAlone
    \/ DoStartupInspect
    \/ DoAdminStart
    \/ DoAdminLogin
    \/ DoAdminLogout
    \/ DoAdminOptions
    \/ DoAdminView

SpecAdmin == InitAdmin /\ [][NextAdmin]_vars

----------------------------------------------------------------------------
(* Two named users at work concurrently, the statements of their runs
   interleaving freely, within one reading of the clock; Check-Out is
   pressed with a blank name too *)

NextPairs ==
    \/ DoStartupInitDb
    \/ DoStartupInspect
    \/ DoClientCheckInStart
    \/ DoTimelessCheckInRead
    \/ DoLocatedCheckInInsert
    \/ DoStoreCheckOutStart
    \/ DoCheckOutLookup
    \/ DoTimelessCheckOutRead
    \/ DoCheckOutUpdate

SpecPairs == Init /\ [][NextPairs]_vars

\* The records of user u, and the records of everybody else, in table order
RECURSIVE OfUser(_, _)
OfUser(t, u) ==
    IF t = <<>> THEN <<>>
    ELSE IF Head(t).username = u THEN <<Head(t)>> \o OfUser(Tail(t), u)
    ELSE OfUser(Tail(t), u)

RECURSIVE Others(_, _)
Others(t, u) ==
    IF t = <<>> THEN <<>>
    ELSE IF Head(t).username /= u THEN <<Head(t)>> \o Others(Tail(t), u)
    ELSE Others(Tail(t), u)

Rows == 1..Len(table)

----------------------------------------------------------------------------
(* C1: each username has at most one open record (a record whose
   checkout_time is null) in every state reachable by check-ins and
   check-outs. *)
C1_AtMostOneOpenPerUser ==
    \A u \in Usernames : Cardinality(OpenIds(table, u)) <= 1

(* C2: once a record's checkout_time is non-null, no later step changes its
   checkout_time, checkout_remark, checkout_latitude or checkout_longitude,
   also when the lookup and the update of concurrent check-outs interleave. *)
C2_CheckoutSetOnce ==
    [][\A i \in Rows :
          table[i].checkout_time /= Null =>
              /\ table'[i].checkout_time = table[i].checkout_time
              /\ table'[i].checkout_remark = table[i].checkout_remark
              /\ table'[i].checkout_latitude = table[i].checkout_latitude
              /\ table'[i].checkout_longitude = table[i].checkout_longitude]_vars

(* C3 as stated: in every record the four checkout fields are all null or
   all non-null, whatever the location lookup gives at check-out. *)
C3_AllOrNothing ==
    \A i \in Rows :
        \/ /\ table[i].checkout_time = Null
           /\ table[i].checkout_remark = Null
           /\ table[i].checkout_latitude = Null
           /\ table[i].checkout_longitude = Null
        \/ /\ table[i].checkout_time /= Null
           /\ table[i].checkout_remark /= Null
           /\ table[i].checkout_latitude /= Null
           /\ table[i].checkout_longitude /= Null

(* C3 amended: checkout_time and checkout_remark are both null or both
   non-null, checkout_latitude and checkout_longitude are both null or both
   non-null, and the coordinates are null whenever checkout_time is null
   (they stay null on a closed record when the location is unavailable). *)
C3_CheckoutFieldsTogether ==
    \A i \in Rows :
        /\ (table[i].checkout_time = Null) <=> (table[i].checkout_remark = Null)
        /\ (table[i].checkout_latitude = Null) <=> (table[i].checkout_longitude = Null)
        /\ table[i].checkout_time = Null => table[i].checkout_latitude = Null

C3_Witness ==
    /\ result = Outcome("checkout", "ok")
    /\ \E i \in Rows : table[i].checkout_time /= Null /\ table[i].checkout_latitude = Null
    /\ \E i \in Rows : table[i].checkout_time /= Null /\ table[i].checkout_latitude /= Null

\* The columns a check-out must leave alone
SameCheckinPart(r1, r2) ==
    /\ r1.id = r2.id
    /\ r1.username = r2.username
    /\ r1.address = r2.address
    /\ r1.latitude = r2.latitude
    /\ r1.longitude = r2.longitude
    /\ r1.checkin_time = r2.checkin_time
    /\ r1.checkin_remark = r2.checkin_remark
    /\ r1.checkin_latitude = r2.checkin_latitude
    /\ r1.checkin_longitude = r2.checkin_longitude

\* The handler of the run of session s has shown msg: the run has ended
\* with it, or goes on with it to the history query
Signals(s, msg) ==
    \/ pend'[s] = Idle /\ result' = msg
    \/ pend'[s].pc = "history" /\ pend'[s].shown = msg

\* What an update does to the record with the given id and to the others
WritesCheckoutOn(id, r, loc, now) ==
    /\ Len(table') = Len(table)
    /\ \A i \in Rows :
          IF table[i].id = id
          THEN /\ table'[i].checkout_time = Some(Strftime(now))
               /\ table'[i].checkout_remark = Some(r)
               /\ table'[i].checkout_latitude = loc.lat
               /\ table'[i].checkout_longitude = loc.lon
               /\ SameCheckinPart(table'[i], table[i])
          ELSE table'[i] = table[i]

(* C4: a check-out for username u that has an open record when its lookup
   runs writes the four checkout fields on exactly one record, the open
   record of u with the highest id: the lookup selects that record and
   writes nothing, nothing is written up to the update, and the update
   writes the four fields on exactly the selected record, a record of u;
   every other record is unchanged and the other columns of the updated
   record are unchanged.  This holds in every interleaving of the
   statements of the sessions' runs. *)
C4_CheckOutWritesSelected ==
    [][/\ \A s \in Sessions :
            (OpenIds(table, pend[s].user) /= {} /\ CheckOutLookup(s)) =>
                /\ pend'[s].pc = "found"
                /\ pend'[s].user = pend[s].user
                /\ pend'[s].record_id = Max(OpenIds(table, pend[s].user))
                /\ table' = table
       /\ \A s \in Sessions, now \in Nows :
            CheckOutRead(s, now) =>
                /\ pend'[s].user = pend[s].user
                /\ pend'[s].record_id = pend[s].record_id
                /\ table' = table
       /\ \A s \in Sessions, f \in Forms :
            CheckOutUpdate(s, f.remark, f.geo) =>
                /\ \E i \in Rows : /\ table[i].id = pend[s].record_id
                                   /\ table[i].username = pend[s].user
                /\ WritesCheckoutOn(pend[s].record_id, f.remark,
                                    get_ip_location(f.geo), pend[s].now)]_vars

\* a check-out has closed the newer of two open records of one username
C4_Witness ==
    /\ result = Outcome("checkout", "ok")
    /\ Len(table) = 2
    /\ table[1].username = table[2].username
    /\ IsOpen(table[1])
    /\ ~IsOpen(table[2])

(* C5 as stated: a check-out for a username that has no open record signals
   NotFound and leaves the whole table unchanged: the run goes on from the
   name check to its lookup, and the lookup signals NotFound. *)
C5_NoOpenRecordIsNotFound ==
    [][/\ \A s \in Sessions, u \in Usernames :
            (OpenIds(table, u) = {} /\ CheckOutStart(s, u, FALSE)) =>
                /\ pend'[s].pc = "checkout"
                /\ pend'[s].user = u
                /\ table' = table
                /\ seq' = seq
       /\ \A s \in Sessions :
            (OpenIds(table, pend[s].user) = {} /\ CheckOutLookup(s)) =>
                /\ Signals(s, Outcome("checkout", "NotFound"))
                /\ table' = table
                /\ seq' = seq]_vars

(* C5 amended: a check-out for a non-blank username that has no open record
   when its lookup runs signals NotFound and leaves the whole table
   unchanged; for a blank username it signals ValidationError and leaves the
   table unchanged too. *)
C5_NonBlankNoOpenRecordIsNotFound ==
    [][/\ \A s \in Sessions, u \in Usernames :
            (OpenIds(table, u) = {} /\ CheckOutStart(s, u, FALSE)) =>
                /\ IF IsBlank(u)
                   THEN Signals(s, Outcome("checkout", "ValidationError"))
                   ELSE pend'[s].pc = "checkout" /\ pend'[s].user = u
                /\ table' = table
                /\ seq' = seq
       /\ \A s \in Sessions :
            (OpenIds(table, pend[s].user) = {} /\ CheckOutLookup(s)) =>
                /\ Signals(s, Outcome("checkout", "NotFound"))
                /\ table' = table
                /\ seq' = seq]_vars

\* NotFound was signalled with records in the table, one of them closed
C5_Witness ==
    /\ result = Outcome("checkout", "NotFound")
    /\ Len(table) = 2
    /\ \E i \in Rows : ~IsOpen(table[i])

(* C6: a check-in with a non-blank username adds exactly one record: its id
   is greater than every id present, username and checkin_remark are the
   given ones, checkin_time is the current timestamp, the four checkout
   fields are null; every record that existed before is unchanged. *)
C6_CheckInAddsOneOpenRecord ==
    [][/\ \A s \in Sessions, u \in Usernames, show \in BOOLEAN :
            (~IsBlank(u) /\ CheckInStart(s, u, show)) =>
                /\ pend'[s].pc = "checkin"
                /\ pend'[s].user = u
                /\ table' = table
       /\ \A s \in Sessions, now \in Nows :
            CheckInRead(s, now) =>
                /\ pend'[s].pc = "insert"
                /\ pend'[s].user = pend[s].user
                /\ table' = table
       /\ \A s \in Sessions, f \in Forms :
            CheckInInsert(s, f.remark, f.geo) =>
                /\ Len(table') = Len(table) + 1
                /\ \A i \in Rows : table'[i] = table[i]
                /\ LET new == table'[Len(table')]
                   IN  /\ \A i \in Rows : new.id > table[i].id
                       /\ new.username = pend[s].user
                       /\ new.checkin_remark = Some(f.remark)
                       /\ new.checkin_time = Some(Strftime(clock))
                       /\ new.checkout_time = Null
                       /\ new.checkout_remark = Null
                       /\ new.checkout_latitude = Null
                       /\ new.checkout_longitude = Null
                /\ Signals(s, Outcome("checkin", "ok"))]_vars

\* a check-in has added a second record, after the clock moved on
C6_Witness ==
    /\ result = Outcome("checkin", "ok")
    /\ Len(table) = 2
    /\ table[2].id > table[1].id
    /\ table[2].checkin_time /= table[1].checkin_time
    /\ IsOpen(table[2])

(* C7: a check-in whose username is blank (empty or only whitespace) yields
   ValidationError, inserts nothing and leaves the table unchanged. *)
C7_BlankCheckInRejected ==
    [][\A s \in Sessions, u \in Usernames, show \in BOOLEAN :
          (Strip(u) = <<>> /\ CheckInStart(s, u, show)) =>
              /\ result' = Outcome("checkin", "ValidationError")
              /\ pend'[s] = Idle
              /\ table' = table
              /\ seq' = seq]_vars

\* a blank check-in was rejected with a record already in the table
C7_Witness ==
    /\ result = Outcome("checkin", "ValidationError")
    /\ Len(table) >= 1

(* C8: every interaction that opens a database connection closes it before
   the interaction ends, on every outcome: no completed interaction leaves
   a connection open. *)
C8_NoConnectionLeftOpen == openConns = 0

(* C9: every record has latitude equal to checkin_latitude and longitude
   equal to checkin_longitude. *)
C9_LegacyMirrorsCheckin ==
    \A i \in Rows :
        /\ table[i].latitude = table[i].checkin_latitude
        /\ table[i].longitude = table[i].checkin_longitude

\* startup has run over a record with coordinates and one without
C9_Witness ==
    /\ result = Outcome("startup", "ok")
    /\ \E i \in Rows : table[i].checkin_latitude /= Null /\ ~IsOpen(table[i])
    /\ \E i \in Rows : table[i].checkin_latitude = Null

(* C10: running the legacy-location backfill a second time changes nothing:
   twice in succession gives the same table as once. *)
C10_BackfillIdempotent ==
    [][\A s \in Sessions :
          (result = Outcome("startup", "ok") /\ StartupBackfill(s)) => table' = table]_vars

\* a startup has filled in the legacy coordinates of a row and left another alone
C10_Witness ==
    /\ result = Outcome("startup", "ok")
    /\ \E i \in Rows : table[i].latitude = Some(3) /\ table[i].longitude = Some(4)
    /\ \E i \in Rows : table[i].latitude = Null /\ table[i].checkin_longitude /= Null

(* C11: the backfill changes only rows whose latitude and longitude are
   both null and whose checkin_latitude and checkin_longitude are both
   non-null, copying the check-in values; in every other row, in particular
   wherever a latitude or longitude is already non-null, that value is left
   unchanged; no column other than latitude and longitude is changed. *)
C11_BackfillFillsOnlyNulls ==
    [][(\E s \in Sessions : StartupBackfill(s)) =>
          /\ Len(table') = Len(table)
          /\ \A i \in Rows :
                IF /\ table[i].latitude = Null /\ table[i].longitude = Null
                   /\ table[i].checkin_latitude /= Null
                   /\ table[i].checkin_longitude /= Null
                THEN table'[i] = [table[i] EXCEPT !.latitude = table[i].checkin_latitude,
                                                  !.longitude = table[i].checkin_longitude]
                ELSE table'[i] = table[i]]_vars

\* The day of a record's check-in
CheckinDate(r) == r.checkin_time[1][1]

(* C12: a search returns exactly the records whose username equals the
   filter (every record when the filter is "All") and whose check-in date d
   satisfies dateFrom <= d <= dateTo, each once, in strictly decreasing id
   order; nothing when dateFrom > dateTo. *)
C12_SearchReturnsMatchesNewestFirst ==
    [][\A s \in Sessions, sel \in Clients \cup {All}, from \in SearchDates, to \in SearchDates :
          (pend[s].pc = "search" /\ AdminView(s, sel, from, to)) =>
              LET rows == result'.rows
              IN  /\ { rows[k] : k \in 1..Len(rows) } =
                        { table[i].id : i \in { j \in Rows :
                            /\ (sel = All \/ table[j].username = sel)
                            /\ from <= CheckinDate(table[j])
                            /\ CheckinDate(table[j]) <= to } }
                  /\ \A k \in 1..(Len(rows) - 1) : rows[k] > rows[k + 1]
                  /\ from > to => rows = <<>>]_vars

\* a search has returned two records and left one out
C12_Witness ==
    /\ result.op = "admin"
    /\ Len(result.rows) = 2
    /\ Len(table) = 3
    /\ \E i, j \in Rows : table[i].username /= table[j].username
    /\ \E i, j \in Rows : CheckinDate(table[i]) /= CheckinDate(table[j])

(* C13: in every session the admin flag starts false; a run shows records
   or the CSV export only when the session's flag is true; the flag becomes
   true only by a login attempt whose username and password both equal the
   configured credential; a failed login leaves it unchanged; logout makes
   it false. *)
C13_AdminFlagGatesAdminViews ==
    /\ admin = NoAdmin
    /\ [][/\ \A s \in Sessions :
                (pend'[s] = Idle /\ pend[s] /= Idle
                    /\ (result'.rows /= <<>> \/ result'.csv)) => admin[s] /\ admin'[s]
          /\ \A s \in Sessions :
                (~admin[s] /\ admin'[s]) => AdminLogin(s, ADMIN_USERNAME, ADMIN_PASSWORD)
          /\ \A s \in Sessions, user \in AdminUsers, pass \in AdminPasswords :
                (~(user = "admin" /\ pass = "12345") /\ AdminLogin(s, user, pass)) =>
                    /\ admin' = admin
                    /\ result' = Outcome("login", "Invalid")
                    /\ pend'[s] = Idle
          /\ \A s \in Sessions :
                AdminLogout(s) =>
                    /\ ~admin'[s]
                    /\ result'.rows = <<>>
                    /\ ~result'.csv]_vars

\* records and the export are on show in one session, after a login, while
\* the other session is not logged in
C13_Witness ==
    /\ \E s, t \in Sessions : admin[s] /\ ~admin[t]
    /\ AllIdle
    /\ result.op = "admin"
    /\ result.csv
    /\ Len(result.rows) = 3

(* C14: requests of different usernames do not interact. In every
   interleaving of the statements of the runs, only an insert and an update
   change the table; a step of a request for v leaves the records of every
   other user as they were, and what the step does (success or NotFound,
   the record it selects, the record it closes) is what it would do on v's
   own records alone. *)
C14_DifferentUsersDoNotInteract ==
    [][/\ table' /= table =>
            \E s \in Sessions : pend[s].pc \in {"insert", "update"} /\ pend'[s] /= pend[s]
       /\ \A s \in Sessions, f \in ClientForms :
            CheckInInsert(s, f.remark, f.geo) =>
                LET v == pend[s].user
                IN  /\ Others(table', v) = Others(table, v)
                    /\ result' = Outcome("checkin", "ok")
                    /\ OfUser(table', v) =
                         Append(OfUser(table, v),
                                NewRow(table'[Len(table')].id, v, f.remark,
                                       get_ip_location(f.geo), pend[s].now))
       /\ \A s \in Sessions :
            CheckOutLookup(s) =>
                LET v == pend[s].user
                IN  /\ table' = table
                    /\ IF SelectOpen(OfUser(table, v), v) = 0
                       THEN result' = Outcome("checkout", "NotFound") /\ pend'[s] = Idle
                       ELSE /\ pend'[s].pc = "found"
                            /\ pend'[s].record_id = SelectOpen(OfUser(table, v), v)
       /\ \A s \in Sessions, f \in Forms :
            CheckOutUpdate(s, f.remark, f.geo) =>
                LET v == pend[s].user
                IN  /\ Others(table', v) = Others(table, v)
                    /\ result' = Outcome("checkout", "ok")
                    /\ OfUser(table', v) =
                         UpdateCheckout(OfUser(table, v), pend[s].record_id,
                                        f.remark, get_ip_location(f.geo), pend[s].now)]_vars

\* one user's record has just been closed between the lookup and the update
\* of another user's check-out
C14_Witness ==
    /\ result = Outcome("checkout", "ok")
    /\ \E s \in Sessions :
          /\ pend[s].pc = "found"
          /\ \E i, j \in Rows :
                /\ table[i].id = pend[s].record_id
                /\ table[i].username = pend[s].user
                /\ IsOpen(table[i])
                /\ table[j].username /= pend[s].user
                /\ ~IsOpen(table[j])

(* C15: schema startup is idempotent. A startup against a table that has
   every expected column performs no ALTER; from any starting column set, a
   second startup adds no column and leaves the column set and all rows as
   the first startup left them. *)
C15_SchemaStartupIdempotent ==
    [][\A s \in Sessions :
          /\ (schema.exists /\ NewCols \subseteq schema.cols
                /\ (StartupInitDb(s) \/ StartupInspect(s))) =>
                /\ pend'[s].todo = <<>>
                /\ schema' = schema
          /\ (result = Outcome("startup", "ok")
                /\ (StartupInitDb(s) \/ StartupInspect(s) \/ StartupAlter(s)
                      \/ StartupBackfill(s))) =>
                /\ schema'.cols = schema.cols
                /\ schema'.alters = schema.alters
                /\ schema'.exists = schema.exists
                /\ table' = table]_vars

\* a startup has added all the eight columns to a table that holds a record
\* and run to its end
C15_Witness ==
    /\ result = Outcome("startup", "ok")
    /\ AllIdle
    /\ schema.cols = AllCols
    /\ schema.alters = Cardinality(NewCols)
    /\ table /= <<>>

(* C16: location unavailability always yields the sentinel: whenever the
   resolver returns null coordinates the address it returns is "Unknown",
   so a record checked in while the location is unavailable has latitude,
   longitude, checkin_latitude and checkin_longitude null and the address
   "Unknown" that the resolver returned with them. *)
C16_NoCoordinatesMeansUnknown ==
    \A i \in Rows :
          (table[i].checkin_latitude = Null \/ table[i].checkin_longitude = Null) =>
              /\ table[i].latitude = Null
              /\ table[i].longitude = Null
              /\ table[i].checkin_latitude = Null
              /\ table[i].checkin_longitude = Null
              /\ table[i].address = "Unknown"

\* The closed records of u are the ones with the highest ids
DrainOrder(u) ==
    \A i, j \in Rows :
        (table[i].username = u /\ table[j].username = u
            /\ IsOpen(table[i]) /\ ~IsOpen(table[j])) => table[i].id < table[j].id

\* What the lookup of the check-out of session s finds
DrainLookupStep(s) ==
    IF OpenIds(table, pend[s].user) /= {}
    THEN /\ pend'[s].pc = "found"
         /\ pend'[s].record_id = Max(OpenIds(table, pend[s].user))
         /\ table' = table
    ELSE /\ result' = Outcome("checkout", "NotFound")
         /\ pend'[s] = Idle
         /\ table' = table

\* What its update does to u's open records
DrainUpdateStep(u) ==
    /\ result' = Outcome("checkout", "ok")
    /\ OpenIds(table, u) /= {}
    /\ OpenIds(table', u) = OpenIds(table, u) \ {Max(OpenIds(table, u))}

\* Every record that is open is closed later on
AllEventuallyClosed ==
    \A i \in 1..MaxDrainRows :
        (i <= Len(table) /\ IsOpen(table[i])) ~> (i <= Len(table) /\ ~IsOpen(table[i]))

(* C17 as stated: for every username u with n >= 0 open records and no
   further check-in, the check-outs for u succeed one after the other, the
   k-th closing the open record of u with the k-th highest id, the one after
   the last signals NotFound, and every open record is eventually closed
   when u keeps checking out. *)
C17_OpenRecordsDrain ==
    /\ [](\A u \in Usernames : DrainOrder(u))
    /\ [][/\ \A s \in Sessions, u \in Usernames :
               CheckOutStart(s, u, FALSE) =>
                   /\ pend'[s].pc = "checkout"
                   /\ pend'[s].user = u
                   /\ table' = table
          /\ \A s \in Sessions : CheckOutLookup(s) => DrainLookupStep(s)
          /\ \A s \in Sessions, now \in Nows : CheckOutRead(s, now) => table' = table
          /\ \A s \in Sessions, f \in ClientForms :
               CheckOutUpdate(s, f.remark, f.geo) => DrainUpdateStep(pend[s].user)]_vars
    /\ AllEventuallyClosed

(* C17 amended: the same for every non-blank username u; a check-out with a
   blank username signals ValidationError and changes nothing. *)
C17_NamedOpenRecordsDrain ==
    /\ [](\A u \in Clients : DrainOrder(u))
    /\ [][/\ \A s \in Sessions, u \in Usernames :
               CheckOutStart(s, u, FALSE) =>
                   /\ IF IsBlank(u)
                      THEN /\ result' = Outcome("checkout", "ValidationError")
                           /\ pend'[s] = Idle
                      ELSE /\ pend'[s].pc = "checkout"
                           /\ pend'[s].user = u
                   /\ table' = table
          /\ \A s \in Sessions : CheckOutLookup(s) => DrainLookupStep(s)
          /\ \A s \in Sessions, now \in Nows : CheckOutRead(s, now) => table' = table
          /\ \A s \in Sessions, f \in ClientForms :
               CheckOutUpdate(s, f.remark, f.geo) => DrainUpdateStep(pend[s].user)]_vars
    /\ AllEventuallyClosed

\* three records drained, two of them of one user, and the next check-out
\* of that user found nothing
C17_Witness ==
    /\ result = Outcome("checkout", "NotFound")
    /\ Len(table) = 3
    /\ \A i \in Rows : ~IsOpen(table[i])
    /\ \E i, j \in Rows : i /= j /\ table[i].username = table[j].username

\* The order of two stored timestamps: by date, then by time of day
TsLeq(a, b) == a[1] < b[1] \/ (a[1] = b[1] /\ a[2] <= b[2])

(* C18: with a server clock that never goes backwards, in every state
   reached by check-ins and check-outs run one after the other, every record
   has its checkin_time set and every closed record has
   checkin_time <= checkout_time. *)
C18_CheckinNotAfterCheckout ==
    \A i \in Rows :
        /\ table[i].checkin_time /= Null
        /\ ~IsOpen(table[i]) => TsLeq(table[i].checkin_time[1], table[i].checkout_time[1])

\* one record closed strictly after its check-in, another closed in the
\* second it was opened
C18_Witness ==
    \E i, j \in Rows :
        /\ ~IsOpen(table[i])
        /\ table[i].checkin_time /= table[i].checkout_time
        /\ ~IsOpen(table[j])
        /\ table[j].checkin_time = table[j].checkout_time
        /\ table[j].checkin_time /= table[i].checkin_time

====
